---- MODULE Spec2Model ----
(***************************************************************************)
(* Model of the retrieval-augmented pipeline of rag_chatbot:               *)
(*   backend/services/embedding_service.py  (index adapter + retriever)    *)
(*   backend/services/pdf_processor.py      (segmenter)                    *)
(*   backend/services/llm_service.py        (prompt composer + LLM call)   *)
(*   backend/services/rag_service.py        (orchestrator)                 *)
(*                                                                         *)
(* Real numbers (distances, thresholds, similarities) are exact rationals  *)
(* <<numerator, denominator>> with a positive denominator.  A value that   *)
(* went through Python's round(x, 4) is an integer count of 1/ScoreScale.  *)
(* External services (embedding model, vector index, language model) are   *)
(* black boxes: every call to one of them either answers or raises, and    *)
(* which one happens is an input of the action that makes the call.        *)
(***************************************************************************)
EXTENDS Integers, Sequences, FiniteSets, TLC

VARIABLES
    collection,     \* EmbeddingService.collection: the stored entries, in insertion order
    handleOk,       \* FALSE when self.collection refers to a deleted collection
    client,         \* LLMService.client is not None (fixed at construction)
    runs,           \* number of initialize_knowledge_base calls started so far
    pc,             \* per caller: position inside initialize_knowledge_base
    chunks,         \* per caller: the local variable `chunks` of initialize_knowledge_base
    stageFailed,    \* per caller: stages of the running initialize whose external call raised
    initResult,     \* per caller: the dict returned by its last initialize_knowledge_base
    lastChat,       \* the process_chat_query handled in the last step, if any, and its response
    lastSearch,     \* outcome of the last direct search_chunks call
    prevSearch,     \* the search that lastSearch repeated with another threshold, if any
    pending,        \* the answer request in progress, the external call it waits for and for how long
    lastSegment,    \* the last direct process_pdf call: its document set and its result
    callStart,      \* per caller: what the clear step of its initialize did and, while the call runs, the index it found
    lastClean       \* the last direct _clean_text call: the page text and the cleaned text

vars == <<collection, handleOk, client, runs, pc, chunks, stageFailed,
          initResult, lastChat, lastSearch, prevSearch, pending, lastSegment, callStart, lastClean>>

(***************************************************************************)
(* Bounds of the model                                                     *)
(***************************************************************************)
MaxRuns == 2        \* initialize_knowledge_base calls explored per behaviour
NumCallers == 2     \* concurrent callers of initialize_knowledge_base
MaxChatRuns == 1    \* initialize_knowledge_base calls that answer requests interleave with
MaxWait == 3        \* time units an external call is followed for
MaxDocs == 3        \* documents in a document set given to process_pdf directly
MaxIngestRuns == 3  \* initialize_knowledge_base calls of one caller, one after the other

Callers == 1..NumCallers

\* An optional value: NoArg is Python's None (an omitted argument), Arg(v) a
\* supplied value v
NoArg == << >>
Arg(v) == <<v>>
Given(a) == a # NoArg
ValueOf(a) == a[1]

(***************************************************************************)
(* Rational arithmetic                                                     *)
(***************************************************************************)
RatGeq(a, b) == a[1] * b[2] >= b[1] * a[2]
RatLeq(a, b) == RatGeq(b, a)
RatLt(a, b)  == ~RatGeq(a, b)
RatZero(a)   == a[1] = 0

\* Python truthiness of an optional int / optional float argument
TruthyInt(k)   == Given(k) /\ ValueOf(k) # 0
TruthyFloat(t) == Given(t) /\ ~RatZero(ValueOf(t))

Min(a, b) == IF a <= b THEN a ELSE b

(***************************************************************************)
(* Settings (backend/core/config.py)                                       *)
(***************************************************************************)
RetrievalK == 5
SimilarityThreshold == <<2, 5>>        \* 0.4
MinChunkLen == 50
ScoreScale == 10000                    \* round(similarity_score, 4)

(***************************************************************************)
(* The corpus texts and the embedding geometry.                            *)
(* Distance[q][t] is the raw distance the index reports between the        *)
(* embedding of query q and the embedding of stored text t.  The           *)
(* collection is created with the index's default metric (squared L2), so  *)
(* every distance is non-negative.                                         *)
(***************************************************************************)
Texts == {"gravity", "motion", "sound", "atom", "cell"}
Queries == {"why does a ball fall", "what is an atom"}

Distance ==
    [q \in Queries |->
        IF q = "why does a ball fall"
        THEN [t \in Texts |->
                CASE t = "gravity" -> <<0, 1>>
                  [] t = "motion"  -> <<1, 2>>
                  [] t = "sound"   -> <<3, 2>>
                  [] t = "atom"    -> <<2, 1>>
                  [] t = "cell"    -> <<4, 1>>]
        ELSE [t \in Texts |->
                CASE t = "atom"    -> <<1, 4>>
                  [] t = "cell"    -> <<3, 2>>
                  [] t = "gravity" -> <<2, 1>>
                  [] t = "motion"  -> <<2, 1>>
                  [] t = "sound"   -> <<4, 1>>]]

\* Arguments a caller may pass to search_chunks
KArgs == {NoArg, Arg(0), Arg(1), Arg(2), Arg(7)}
ThresholdArgs == {NoArg, Arg(<<0, 1>>), Arg(<<1, 3>>), Arg(<<2, 5>>),
                  Arg(<<1, 2>>), Arg(<<1, 1>>)}

\* The external call of search_chunks that raises first, if any
SearchFaults == {"none", "embed", "count", "query", "stats"}

(***************************************************************************)
(* Vector index (the external collection behind EmbeddingService)          *)
(***************************************************************************)
\* One stored entry: id, document text and metadata are stored together.
\* The metadata (source file, page, chunk_index) is represented by the
\* unit it was produced for.
Entry(id, text) == [id |-> id, document |-> text, metadata |-> [unit |-> id]]

RECURSIVE InsertByDistance(_, _, _)
InsertByDistance(sorted, e, q) ==
    IF sorted = << >> THEN <<e>>
    ELSE IF RatLt(Distance[q][e.document], Distance[q][Head(sorted).document])
         THEN <<e>> \o sorted
         ELSE <<Head(sorted)>> \o InsertByDistance(Tail(sorted), e, q)

\* All entries, nearest first (ties keep insertion order)
RECURSIVE NearestFirst(_, _)
NearestFirst(coll, q) ==
    IF coll = << >> THEN << >>
    ELSE InsertByDistance(NearestFirst(SubSeq(coll, 1, Len(coll) - 1), q),
                          coll[Len(coll)], q)

\* collection.query(query_embeddings=[e(q)], n_results=n, include=[...]):
\* the zip of results['documents'][0], ['metadatas'][0], ['distances'][0]
collection_query(coll, q, n) ==
    LET nearest == NearestFirst(coll, q)
    IN  [i \in 1..Min(n, Len(nearest)) |->
            [document |-> nearest[i].document,
             metadata |-> nearest[i].metadata,
             distance |-> Distance[q][nearest[i].document]]]

(***************************************************************************)
(* Retriever: EmbeddingService.search_chunks                               *)
(***************************************************************************)
\* similarity_score = 1 / (1 + distance)
Similarity(d) == <<d[2], d[1] + d[2]>>

\* round(x, 4) for x = s[1]/s[2] >= 0, as a count of 1/ScoreScale
\* (round-half-even, as Python rounds)
RoundScore(s) ==
    LET n   == s[1] * ScoreScale
        fl  == n \div s[2]
        rem == n % s[2]
    IN  IF 2 * rem < s[2] THEN fl
        ELSE IF 2 * rem > s[2] THEN fl + 1
        ELSE IF fl % 2 = 0 THEN fl ELSE fl + 1

\* A rounded score as a rational, to compare it with a threshold
ScoreAsRat(score) == <<score, ScoreScale>>

RetrievedChunk(neighbour) ==
    [content |-> neighbour.document,
     metadata |-> neighbour.metadata,
     similarity_score |-> RoundScore(Similarity(neighbour.distance))]

\* FilterLoop with retrieved_chunks.insert(0, ...) in place of append
RECURSIVE FilterLoop_insertFirst(_, _, _, _)
FilterLoop_insertFirst(neighbours, threshold, i, retrieved_chunks) ==
    IF i > Len(neighbours) THEN retrieved_chunks
    ELSE IF RatGeq(Similarity(neighbours[i].distance), threshold)
         THEN FilterLoop_insertFirst(neighbours, threshold, i + 1,
                         <<RetrievedChunk(neighbours[i])>> \o retrieved_chunks)
         ELSE FilterLoop_insertFirst(neighbours, threshold, i + 1, retrieved_chunks)

\* The for loop of search_chunks over the zipped neighbours, from position i
RECURSIVE FilterLoop(_, _, _, _)
FilterLoop(neighbours, threshold, i, retrieved_chunks) ==
    IF i > Len(neighbours) THEN retrieved_chunks
    ELSE IF RatGeq(Similarity(neighbours[i].distance), threshold)
         THEN FilterLoop(neighbours, threshold, i + 1,
                         Append(retrieved_chunks, RetrievedChunk(neighbours[i])))
         ELSE FilterLoop(neighbours, threshold, i + 1, retrieved_chunks)

\* k = k or settings.retrieval_k
EffectiveK(k) == IF TruthyInt(k) THEN ValueOf(k) ELSE RetrievalK
\* similarity_threshold = similarity_threshold or settings.similarity_threshold
EffectiveThreshold(t) == IF TruthyFloat(t) THEN ValueOf(t) ELSE SimilarityThreshold

\* The try block of search_chunks(query, k, similarity_threshold) on
\* collection `coll`.  fault names the external call that raises, if any:
\* generate_embeddings ("embed"), collection.count() before the query
\* ("count"), collection.query ("query"), or collection.count() for the
\* retrieval record ("stats").  A call on a deleted collection raises too.
SearchTry(coll, ok, query, k, t, fault) ==
    LET k_used == EffectiveK(k)
        t_used == EffectiveThreshold(t)
        embedRaised == fault = "embed"
        countRaised == ~embedRaised /\ (fault = "count" \/ ~ok)
        n_results   == Min(k_used, Len(coll))
        queryRaised == ~embedRaised /\ ~countRaised /\ fault = "query"
        neighbours  == collection_query(coll, query, n_results)
        retrieved   == FilterLoop(neighbours, t_used, 1, << >>)
        statsRaised == ~embedRaised /\ ~countRaised /\ ~queryRaised /\ fault = "stats"
        queried     == ~(embedRaised \/ countRaised \/ queryRaised)
    IN  [exception   |-> embedRaised \/ countRaised \/ queryRaised \/ statsRaised,
         retrieved   |-> retrieved,
         embed_calls |-> 1,
         k_used      |-> k_used,
         t_used      |-> t_used,
         n_results   |-> IF embedRaised \/ countRaised THEN NoArg ELSE Arg(n_results),
         neighbours  |-> IF queried THEN neighbours ELSE << >>,
         filtered    |-> IF queried THEN retrieved ELSE << >>]

\* search_chunks whose except clause re-raises (as generate_embeddings does)
search_chunks_reraise(coll, ok, query, k, t, fault) ==
    LET try == SearchTry(coll, ok, query, k, t, fault)
    IN  [returned    |-> IF try.exception THEN << >> ELSE try.retrieved,
         raised      |-> try.exception,
         caught      |-> FALSE,
         embed_calls |-> try.embed_calls,
         k_used      |-> try.k_used,
         t_used      |-> try.t_used,
         n_results   |-> try.n_results,
         neighbours  |-> try.neighbours,
         filtered    |-> try.filtered]

\* search_chunks: the try block, and the except clause that logs the error
\* and returns [].  `returned` is the function's return value, `raised`
\* says whether an exception left the function; the other fields record
\* what the call did.
search_chunks(coll, ok, query, k, t, fault) ==
    LET try == SearchTry(coll, ok, query, k, t, fault)
    IN  [returned    |-> IF try.exception THEN << >> ELSE try.retrieved,
         raised      |-> FALSE,
         caught      |-> try.exception,
         embed_calls |-> try.embed_calls,
         k_used      |-> try.k_used,
         t_used      |-> try.t_used,
         n_results   |-> try.n_results,
         neighbours  |-> try.neighbours,
         filtered    |-> try.filtered]

(***************************************************************************)
(* Segmenter: PDFProcessor                                                 *)
(***************************************************************************)
\* len(chunk_text.strip()) of the windows the text splitter can produce.
\* "fig" and "page no" stand for windows shorter than the minimum length.
Windows == Texts \cup {"fig", "page no"}
StrippedLen ==
    [w \in Windows |->
        CASE w = "gravity" -> 74
          [] w = "motion"  -> 50
          [] w = "sound"   -> 120
          [] w = "atom"    -> 51
          [] w = "cell"    -> 998
          [] w = "fig"     -> 49
          [] w = "page no" -> 7]

\* A source document: readable or not, and for each non-empty page (section)
\* the windows text_splitter.split_text yields for its cleaned text.
Document(readable, sections) == [readable |-> readable, sections |-> sections]

\* The document sets an initialize call may find (pdf_files, in sorted order)
Corpora ==
    { << >>,
      << Document(FALSE, << >>) >>,
      << Document(TRUE, << >>) >>,
      << Document(TRUE, << <<"fig">>, <<"page no">> >>) >>,
      << Document(TRUE, << <<"gravity", "fig", "motion">> >>) >>,
      << Document(FALSE, << >>), Document(TRUE, << <<"atom">>, <<"page no", "cell">> >>) >>,
      << Document(TRUE, << <<"gravity">> >>), Document(FALSE, << >>),
         Document(TRUE, << <<"sound", "atom">> >>) >> }

\* The loop of process_pdf over pdf_files: sections of the readable
\* documents, in document order; a document that raises is skipped.
RECURSIVE AllSections(_)
AllSections(pdf_files) ==
    IF pdf_files = << >> THEN << >>
    ELSE (IF Head(pdf_files).readable THEN Head(pdf_files).sections ELSE << >>)
         \o AllSections(Tail(pdf_files))

\* KeepLongWindows with the bound one too low (len < 49)
RECURSIVE KeepLongWindows_offByOne(_)
KeepLongWindows_offByOne(text_chunks) ==
    IF text_chunks = << >> THEN << >>
    ELSE (IF StrippedLen[Head(text_chunks)] < MinChunkLen - 1
          THEN << >> ELSE <<Head(text_chunks)>>)
         \o KeepLongWindows_offByOne(Tail(text_chunks))

\* The inner loop of create_chunks over one section's windows
RECURSIVE KeepLongWindows(_)
KeepLongWindows(text_chunks) ==
    IF text_chunks = << >> THEN << >>
    ELSE (IF StrippedLen[Head(text_chunks)] < MinChunkLen
          THEN << >> ELSE <<Head(text_chunks)>>)
         \o KeepLongWindows(Tail(text_chunks))

\* create_chunks: the texts of all_chunks, in order
RECURSIVE create_chunks(_)
create_chunks(sections) ==
    IF sections = << >> THEN << >>
    ELSE KeepLongWindows(Head(sections)) \o create_chunks(Tail(sections))

\* chunk_id derived from the position of the chunk in the run instead of
\* a fresh uuid
WithIds_byPosition(run, texts) ==
    [i \in 1..Len(texts) |-> [chunk_id |-> <<0, i>>, text |-> texts[i]]]

\* chunk_id = str(uuid.uuid4()): fresh for every chunk of every run
WithIds(run, texts) == [i \in 1..Len(texts) |-> [chunk_id |-> <<run, i>>, text |-> texts[i]]]

\* process_pdf without the try/except around extract_text_with_structure:
\* the first document that raises fails the whole operation
process_pdf_noSkip(pdf_files, run) ==
    IF pdf_files = << >>
    THEN [success |-> FALSE, chunks |-> << >>,
          message |-> <<"PDF processing failed: ", "No PDF files found to process">>]
    ELSE IF \E i \in 1..Len(pdf_files) : ~pdf_files[i].readable
    THEN [success |-> FALSE, chunks |-> << >>,
          message |-> <<"PDF processing failed: ", "PDF file not found">>]
    ELSE IF AllSections(pdf_files) = << >>
    THEN [success |-> FALSE, chunks |-> << >>,
          message |-> <<"PDF processing failed: ", "No text content extracted from any PDF">>]
    ELSE [success |-> TRUE,
          chunks  |-> WithIds(run, create_chunks(AllSections(pdf_files))),
          message |-> <<"Successfully processed PDF files">>]

\* process_pdf(pdf_path) for the document set pdf_files, as run number `run`
process_pdf(pdf_files, run) ==
    IF pdf_files = << >>
    THEN [success |-> FALSE, chunks |-> << >>,
          message |-> <<"PDF processing failed: ", "No PDF files found to process">>]
    ELSE IF AllSections(pdf_files) = << >>
    THEN [success |-> FALSE, chunks |-> << >>,
          message |-> <<"PDF processing failed: ", "No text content extracted from any PDF">>]
    ELSE [success |-> TRUE,
          chunks  |-> WithIds(run, create_chunks(AllSections(pdf_files))),
          message |-> <<"Successfully processed PDF files">>]

\* What collection.add stores for a list of chunks
StoredAs(chunkList) ==
    [i \in 1..Len(chunkList) |-> Entry(chunkList[i].chunk_id, chunkList[i].text)]

(***************************************************************************)
(* Index adapter: the remaining EmbeddingService methods                   *)
(***************************************************************************)
\* What str(e) says when an external call raises
EmbedError  == "embedding model error"
AddError    == "index add error"
DeleteError == "index delete error"
CreateError == "index create error"
LLMError    == "language model error"

Failure(stage, cause) == [stage |-> stage, cause |-> cause]

\* is_collection_empty(): count() == 0, and True when count() raises
is_collection_empty(coll, ok, countRaises) ==
    IF countRaises \/ ~ok THEN TRUE ELSE Len(coll) = 0

\* clear_collection(): delete_collection, then get_or_create_collection.
\* fault names the call that raises; the except clause returns False.
ClearFaults == {"none", "delete", "create"}
\* A clear that reports success and leaves the old entries in place, as an
\* initialize that restored them would
clear_collection_keepsEntries(coll, ok, fault) ==
    IF fault = "delete"
    THEN [returned |-> FALSE, collection |-> coll, handleOk |-> ok,
          failed |-> {Failure("clear", DeleteError)}]
    ELSE IF fault = "create"
    THEN [returned |-> FALSE, collection |-> << >>, handleOk |-> FALSE,
          failed |-> {Failure("clear", CreateError)}]
    ELSE [returned |-> TRUE, collection |-> coll, handleOk |-> TRUE,
          failed |-> {}]
clear_collection(coll, ok, fault) ==
    IF fault = "delete"
    THEN [returned |-> FALSE, collection |-> coll, handleOk |-> ok,
          failed |-> {Failure("clear", DeleteError)}]
    ELSE IF fault = "create"
    THEN [returned |-> FALSE, collection |-> << >>, handleOk |-> FALSE,
          failed |-> {Failure("clear", CreateError)}]
    ELSE [returned |-> TRUE, collection |-> << >>, handleOk |-> TRUE,
          failed |-> {}]

\* store_chunks(chunks).  fault names the external call that raises:
\* generate_embeddings ("embed") or collection.add ("add"); when add raises
\* the index may already hold the first `stored` entries of the batch.
StoreFaults == {"none", "embed", "add"}
store_chunks(coll, ok, chunkList, fault, stored) ==
    IF chunkList = << >>
    THEN [returned |-> FALSE, collection |-> coll, failed |-> {}]
    ELSE IF fault = "embed"
    THEN [returned |-> FALSE, collection |-> coll,
          failed |-> {Failure("embed", EmbedError)}]
    ELSE IF ~ok
    THEN [returned |-> FALSE, collection |-> coll,
          failed |-> {Failure("upsert", AddError)}]
    ELSE IF fault = "add"
    THEN [returned |-> FALSE,
          collection |-> coll \o SubSeq(StoredAs(chunkList), 1, stored),
          failed |-> {Failure("upsert", AddError)}]
    ELSE [returned |-> TRUE, collection |-> coll \o StoredAs(chunkList),
          failed |-> {}]

(***************************************************************************)
(* Prompt composer and language-model call: LLMService                     *)
(***************************************************************************)
StudentType == {"weak_physics", "weak_chemistry", "weak_biology",
                "strong_physics", "strong_chemistry", "strong_biology",
                "general"}
WeakSubjectLists == { << >>, <<"physics">> }

\* _create_system_prompt: base_prompt + personalization, as the sequence of
\* the blocks concatenated
create_system_prompt(user_type, weak_subjects) ==
    LET personalization ==
            CASE user_type = "weak_physics"   -> <<"PERSONALIZATION FOR PHYSICS-WEAK STUDENT">>
              [] user_type = "weak_chemistry" -> <<"PERSONALIZATION FOR CHEMISTRY-WEAK STUDENT">>
              [] user_type = "weak_biology"   -> <<"PERSONALIZATION FOR BIOLOGY-WEAK STUDENT">>
              [] user_type \in {"strong_physics", "strong_chemistry", "strong_biology"}
                                              -> <<"PERSONALIZATION FOR ADVANCED STUDENT">>
              [] OTHER                        -> << >>
        additional ==
            IF weak_subjects # << >>
            THEN <<"ADDITIONAL CONSIDERATION", weak_subjects>>
            ELSE << >>
    IN  <<"BASE PROMPT">> \o personalization \o additional

\* _extract_context_from_chunks: one labelled part per chunk, in order
extract_context_from_chunks(retrieved) ==
    IF retrieved = << >> THEN <<"No relevant context found in the textbook.">>
    ELSE [i \in 1..Len(retrieved) |->
            <<"Source", i, retrieved[i].metadata, retrieved[i].content>>]

\* _create_user_prompt
create_user_prompt(query, context) == <<"CONTEXT", context, "QUESTION", query>>

\* The keywords of topic_keywords that occur in a text (lower-cased)
KeywordsIn(text) ==
    CASE text = "gravity" -> {"gravity", "mass"}
      [] text = "motion"  -> {"motion", "speed", "distance"}
      [] text = "sound"   -> {"sound", "wave"}
      [] text = "atom"    -> {"atom", "molecule", "matter"}
      [] text = "cell"    -> {"cell", "organism"}
      [] text = "what is an atom" -> {"atom"}
      [] OTHER -> {}

topic_keywords ==
    [topic \in {"matter", "motion", "gravity", "sound", "atoms", "cell"} |->
        CASE topic = "matter"  -> {"matter", "solid", "liquid", "gas", "state", "particle"}
          [] topic = "motion"  -> {"motion", "speed", "velocity", "acceleration", "distance"}
          [] topic = "gravity" -> {"gravity", "gravitation", "weight", "mass"}
          [] topic = "sound"   -> {"sound", "wave", "frequency", "amplitude", "noise"}
          [] topic = "atoms"   -> {"atom", "molecule", "element", "compound", "ion"}
          [] topic = "cell"    -> {"cell", "tissue", "organ", "organism"}]

\* _identify_matched_topics
identify_matched_topics(query, retrieved) ==
    LET found == KeywordsIn(query) \cup
                 UNION {KeywordsIn(retrieved[i].content) : i \in 1..Len(retrieved)}
    IN  {topic \in DOMAIN topic_keywords : topic_keywords[topic] \cap found # {}}

\* What the language-model call does: answers with usage accounting,
\* answers without it, or raises
LLMOutcomes == {"answer", "answer_no_usage", "raise"}
\* response.usage of an answer that carries usage accounting
Usage == [total_tokens |-> 137]

\* generate_response without its except clause: an exception of the
\* language-model call leaves the function
generate_response_noExcept(hasClient, query, retrieved, user_type, weak_subjects, llm) ==
    IF ~hasClient
    THEN [raised |-> FALSE, success |-> FALSE,
          answer |-> <<"LLM service is not available. Please configure OpenAI API key.">>,
          matched_topics |-> {}, personalization_applied |-> FALSE,
          tokens_used |-> 0, llm_calls |-> 0, system_prompt |-> << >>,
          user_prompt |-> << >>]
    ELSE [raised |-> llm = "raise", success |-> llm # "raise",
          answer |-> IF llm = "raise" THEN << >> ELSE <<"generated answer">>,
          matched_topics |-> IF llm = "raise" THEN {}
                             ELSE identify_matched_topics(query, retrieved),
          personalization_applied |->
              llm # "raise" /\ (user_type # "general" \/ weak_subjects # << >>),
          tokens_used |-> IF llm = "answer" THEN Usage.total_tokens ELSE 0,
          llm_calls |-> 1,
          system_prompt |-> create_system_prompt(user_type, weak_subjects),
          user_prompt |-> create_user_prompt(query, extract_context_from_chunks(retrieved))]

\* generate_response without the `if not self.client` branch: the call on
\* the missing client raises and the except clause answers
generate_response_noClientCheck(hasClient, query, retrieved, user_type, weak_subjects, llm) ==
    LET system_prompt == create_system_prompt(user_type, weak_subjects)
        user_prompt == create_user_prompt(query, extract_context_from_chunks(retrieved))
    IN  IF ~hasClient \/ llm = "raise"
        THEN [raised |-> FALSE, success |-> FALSE,
              answer |-> <<"I apologize, but I encountered an error while generating the response: ",
                           "LLM response generation failed: ", LLMError>>,
              matched_topics |-> {}, personalization_applied |-> FALSE,
              tokens_used |-> 0, llm_calls |-> IF hasClient THEN 1 ELSE 0,
              system_prompt |-> system_prompt, user_prompt |-> user_prompt]
        ELSE [raised |-> FALSE, success |-> TRUE,
              answer |-> <<"generated answer">>,
              matched_topics |-> identify_matched_topics(query, retrieved),
              personalization_applied |->
                  user_type # "general" \/ weak_subjects # << >>,
              tokens_used |-> IF llm = "answer" THEN Usage.total_tokens ELSE 0,
              llm_calls |-> 1,
              system_prompt |-> system_prompt, user_prompt |-> user_prompt]

\* generate_response(query, retrieved_chunks, user_type, weak_subjects);
\* its except clause turns an exception of the language-model call into the
\* apologetic result, so none leaves the function (raised is FALSE)
generate_response(hasClient, query, retrieved, user_type, weak_subjects, llm) ==
    IF ~hasClient
    THEN [raised |-> FALSE, success |-> FALSE,
          answer |-> <<"LLM service is not available. Please configure OpenAI API key.">>,
          matched_topics |-> {}, personalization_applied |-> FALSE,
          tokens_used |-> 0, llm_calls |-> 0, system_prompt |-> << >>,
          user_prompt |-> << >>]
    ELSE LET context == extract_context_from_chunks(retrieved)
             matched_topics == identify_matched_topics(query, retrieved)
             system_prompt == create_system_prompt(user_type, weak_subjects)
             user_prompt == create_user_prompt(query, context)
             personalization_applied ==
                 user_type # "general" \/ weak_subjects # << >>
         IN  IF llm = "raise"
             THEN [raised |-> FALSE, success |-> FALSE,
                   answer |-> <<"I apologize, but I encountered an error while generating the response: ",
                                "LLM response generation failed: ", LLMError>>,
                   matched_topics |-> {}, personalization_applied |-> FALSE,
                   tokens_used |-> 0, llm_calls |-> 1,
                   system_prompt |-> system_prompt, user_prompt |-> user_prompt]
             ELSE [raised |-> FALSE, success |-> TRUE,
                   answer |-> <<"generated answer">>,
                   matched_topics |-> matched_topics,
                   personalization_applied |-> personalization_applied,
                   tokens_used |-> IF llm = "answer" THEN Usage.total_tokens ELSE 0,
                   llm_calls |-> 1,
                   system_prompt |-> system_prompt, user_prompt |-> user_prompt]

(***************************************************************************)
(* Orchestrator: RAGService                                                *)
(***************************************************************************)
\* get_system_status with is_initialized = is_collection_empty()
get_system_status_inverted(coll, ok) ==
    IF is_collection_empty(coll, ok, FALSE) THEN "healthy" ELSE "not_initialized"

\* get_system_status()["status"]
get_system_status(coll, ok) ==
    IF ~is_collection_empty(coll, ok, FALSE) THEN "healthy" ELSE "not_initialized"

ChatRequest(query, user_type, weak_subjects) ==
    [query |-> query, user_type |-> user_type, weak_subjects |-> weak_subjects]

\* The ChatResponse of the `if not retrieved_chunks` branch
NoChunksResponse(req) ==
    [raised |-> FALSE,
     query |-> req.query,
     answer |-> <<"No relevant information found in the textbook.">>,
     retrieved_chunks |-> << >>,
     metadata |-> {<<"message", "no_relevant_chunks">>},
     user_type |-> req.user_type,
     matched_topics |-> {},
     personalization_applied |-> FALSE]

\* GeneratedResponse that does not pass personalization_applied, leaving
\* the schema's default
GeneratedResponse_defaultFlag(req, retrieved, llm_result) ==
    [raised |-> FALSE,
     query |-> req.query,
     answer |-> llm_result.answer,
     retrieved_chunks |-> [i \in 1..Len(retrieved) |-> retrieved[i].content],
     metadata |-> {},
     user_type |-> req.user_type,
     matched_topics |-> llm_result.matched_topics,
     personalization_applied |-> FALSE]

\* The ChatResponse built from llm_result
GeneratedResponse(req, retrieved, llm_result) ==
    [raised |-> FALSE,
     query |-> req.query,
     answer |-> llm_result.answer,
     retrieved_chunks |-> [i \in 1..Len(retrieved) |-> retrieved[i].content],
     metadata |-> {},
     user_type |-> req.user_type,
     matched_topics |-> llm_result.matched_topics,
     personalization_applied |-> llm_result.personalization_applied]

\* The ChatResponse of the except clause of process_chat_query
ErrorResponse(req, cause) ==
    [raised |-> FALSE,
     query |-> req.query,
     answer |-> <<"Error processing query: ", cause>>,
     retrieved_chunks |-> << >>,
     metadata |-> {<<"message", "query_processing_error">>},
     user_type |-> req.user_type,
     matched_topics |-> {},
     personalization_applied |-> FALSE]

\* A request that searches a second time when the first search gave nothing
WithoutGeneration_searchAgain(response, search) ==
    [response |-> response,
     retrieved |-> search.returned,
     search_caught |-> search.caught,
     embed_calls |-> search.embed_calls + 1,
     llm_entered |-> FALSE, llm_calls |-> 0, llm_success |-> FALSE,
     tokens_used |-> 0, system_prompt |-> << >>]
\* What a request did when it returned `response` without entering
\* generate_response
WithoutGeneration(response, search) ==
    [response |-> response,
     retrieved |-> search.returned,
     search_caught |-> search.caught,
     embed_calls |-> search.embed_calls,
     llm_entered |-> FALSE, llm_calls |-> 0, llm_success |-> FALSE,
     tokens_used |-> 0, system_prompt |-> << >>]

\* What a request did when it called generate_response
WithGeneration(req, search, llm_result) ==
    [response |-> IF llm_result.raised
                  THEN ErrorResponse(req, LLMError)
                  ELSE GeneratedResponse(req, search.returned, llm_result),
     retrieved |-> search.returned,
     search_caught |-> search.caught,
     embed_calls |-> search.embed_calls,
     llm_entered |-> TRUE,
     llm_calls |-> llm_result.llm_calls,
     llm_success |-> llm_result.success,
     tokens_used |-> llm_result.tokens_used,
     system_prompt |-> llm_result.system_prompt]

\* process_chat_query without the `if not retrieved_chunks` early return
process_chat_query_noEarlyReturn(coll, ok, hasClient, req, searchFault, llm) ==
    LET search == search_chunks(coll, ok, req.query, NoArg, NoArg, searchFault)
        llm_result == generate_response(hasClient, req.query, search.returned,
                                        req.user_type, req.weak_subjects, llm)
    IN  IF search.raised
        THEN WithoutGeneration(ErrorResponse(req, "chunk search error"), search)
        ELSE WithGeneration(req, search, llm_result)

\* process_chat_query(chat_request).  An exception leaving search_chunks or
\* generate_response is caught by the except clause (ErrorResponse).
\* `response` is the return value; the other fields record what the
\* request did.
process_chat_query(coll, ok, hasClient, req, searchFault, llm) ==
    LET search == search_chunks(coll, ok, req.query, NoArg, NoArg, searchFault)
        llm_result == generate_response(hasClient, req.query, search.returned,
                                        req.user_type, req.weak_subjects, llm)
    IN  IF search.raised
        THEN WithoutGeneration(ErrorResponse(req, "chunk search error"), search)
        ELSE IF search.returned = << >>
        THEN WithoutGeneration(NoChunksResponse(req), search)
        ELSE WithGeneration(req, search, llm_result)

(***************************************************************************)
(* Initial states                                                          *)
(***************************************************************************)
\* The collection is persistent: at start-up it is empty or holds what an
\* earlier process stored.
PersistedCollections ==
    { << >>,
      StoredAs(WithIds(0, <<"gravity", "atom">>)) }

NoSearch ==
    [called |-> FALSE, query |-> "", k |-> NoArg, t |-> NoArg, fault |-> "none",
     returned |-> << >>, raised |-> FALSE, caught |-> FALSE, embed_calls |-> 0,
     k_used |-> RetrievalK, t_used |-> SimilarityThreshold, n_results |-> NoArg,
     neighbours |-> << >>, filtered |-> << >>]

NoChat == [called |-> FALSE]
NoPending == [phase |-> "none"]
NoSegment == [called |-> FALSE]
NoResult == [returned |-> FALSE]
NoCall == [index |-> << >>, clear |-> "none"]
NoClean == [called |-> FALSE]

Init ==
    /\ collection \in PersistedCollections
    /\ handleOk = TRUE
    /\ client \in BOOLEAN
    /\ runs = 0
    /\ pc = [p \in Callers |-> "idle"]
    /\ chunks = [p \in Callers |-> << >>]
    /\ stageFailed = [p \in Callers |-> {}]
    /\ initResult = [p \in Callers |-> NoResult]
    /\ lastChat = NoChat
    /\ lastSearch = NoSearch
    /\ prevSearch = NoSearch
    /\ pending = NoPending
    /\ lastSegment = NoSegment
    /\ callStart = [p \in Callers |-> NoCall]
    /\ lastClean = NoClean

(***************************************************************************)
(* initialize_knowledge_base, one step per stage                           *)
(***************************************************************************)
IdsOf(entries) == {entries[i].id : i \in 1..Len(entries)}
ChunkIds(chunkList) == {chunkList[i].chunk_id : i \in 1..Len(chunkList)}
Elements(seq) == {seq[i] : i \in 1..Len(seq)}

\* The dict initialize_knowledge_base returns, with a record of the run:
\* the stages that failed, the ids of the run's chunks and the ids the
\* index holds at the return.
InitReturn(success, message, total, run, failed, chunkList, coll) ==
    [returned |-> TRUE, success |-> success, message |-> message,
     total_chunks |-> total, run |-> run, failed_stages |-> failed,
     chunk_ids |-> ChunkIds(chunkList), index_ids |-> IdsOf(coll),
     index_count |-> Len(coll)]

\* pdf_result = self.pdf_processor.process_pdf(pdf_path)
InitializeSegment(p, budget) ==
    \E pdf_files \in Corpora :
        /\ pc[p] = "idle"
        /\ runs < budget
        /\ runs' = runs + 1
        /\ LET pdf_result == process_pdf(pdf_files, runs + 1)
           IN  IF ~pdf_result.success
               THEN /\ initResult' = [initResult EXCEPT ![p] =
                          InitReturn(FALSE,
                                     <<"PDF processing failed: ">> \o pdf_result.message,
                                     NoArg, runs + 1,
                                     {Failure("segment", pdf_result.message[2])},
                                     << >>, collection)]
                    /\ callStart' = [callStart EXCEPT ![p] = NoCall]
                    /\ UNCHANGED <<pc, chunks>>
               ELSE /\ pc' = [pc EXCEPT ![p] = "clear"]
                    /\ chunks' = [chunks EXCEPT ![p] = pdf_result.chunks]
                    /\ initResult' = [initResult EXCEPT ![p] = NoResult]
                    /\ callStart' = [callStart EXCEPT ![p] =
                          [index |-> collection, clear |-> "none"]]
        /\ stageFailed' = [stageFailed EXCEPT ![p] = {}]
        /\ lastChat' = NoChat
        /\ UNCHANGED <<collection, handleOk, client, lastSearch, prevSearch, pending, lastSegment, lastClean>>

\* if not is_collection_empty(): clear_collection()   (return value unused)
InitializeClear(p) ==
    \E countRaises \in BOOLEAN, fault \in ClearFaults :
        /\ pc[p] = "clear"
        /\ IF is_collection_empty(collection, handleOk, countRaises)
           THEN /\ callStart' = [callStart EXCEPT ![p].clear = "skipped"]
                /\ UNCHANGED <<collection, handleOk, stageFailed>>
           ELSE LET cleared == clear_collection(collection, handleOk, fault)
                IN  /\ collection' = cleared.collection
                    /\ handleOk' = cleared.handleOk
                    /\ stageFailed' = [stageFailed EXCEPT ![p] = @ \cup cleared.failed]
                    /\ callStart' = [callStart EXCEPT ![p].clear =
                          IF cleared.returned THEN "cleared" ELSE "failed"]
        /\ pc' = [pc EXCEPT ![p] = "store"]
        /\ lastChat' = NoChat
        /\ UNCHANGED <<client, runs, chunks, initResult, lastSearch, prevSearch, pending, lastSegment, lastClean>>

\* embedding_success = store_chunks(chunks), and the return
InitializeStore(p) ==
    \E fault \in StoreFaults, stored \in 0..2 :
        /\ pc[p] = "store"
        /\ stored < Len(chunks[p]) \/ stored = 0
        /\ LET store == store_chunks(collection, handleOk, chunks[p], fault, stored)
               run == IF chunks[p] = << >> THEN runs ELSE chunks[p][1].chunk_id[1]
               failed == stageFailed[p] \cup store.failed
           IN  /\ collection' = store.collection
               /\ initResult' = [initResult EXCEPT ![p] =
                     IF ~store.returned
                     THEN InitReturn(FALSE, <<"Failed to store embeddings">>, NoArg,
                                     run, failed, chunks[p], store.collection)
                     ELSE InitReturn(TRUE, <<"Knowledge base initialized successfully">>,
                                     Arg(Len(chunks[p])), run, failed, chunks[p],
                                     store.collection)]
        /\ pc' = [pc EXCEPT ![p] = "idle"]
        /\ chunks' = [chunks EXCEPT ![p] = << >>]
        /\ stageFailed' = [stageFailed EXCEPT ![p] = {}]
        /\ callStart' = [callStart EXCEPT ![p].index = << >>]
        /\ lastChat' = NoChat
        /\ UNCHANGED <<handleOk, client, runs, lastSearch, prevSearch, pending, lastSegment, lastClean>>

(***************************************************************************)
(* An answer request: process_chat_query                                   *)
(***************************************************************************)
Ingesting == \E p \in Callers : pc[p] # "idle"

\* An answer request whose search gets the collection anew, dropping its entries
ProcessChatQuery_recreatesCollection ==
    \E q \in Queries, user_type \in StudentType, weak_subjects \in WeakSubjectLists,
       searchFault \in SearchFaults, llm \in LLMOutcomes :
        /\ ~lastChat.called
        /\ lastChat' =
              [called |-> TRUE,
               request |-> ChatRequest(q, user_type, weak_subjects),
               searchFault |-> searchFault,
               llm |-> llm,
               done |-> process_chat_query(collection, handleOk, client,
                            ChatRequest(q, user_type, weak_subjects), searchFault, llm),
               status |-> get_system_status(collection, handleOk),
               ingesting |-> Ingesting,
               corpus_size |-> Len(collection)]
        /\ collection' = << >>
        /\ UNCHANGED <<handleOk, client, runs, pc, chunks,
                       stageFailed, initResult, lastSearch, prevSearch, pending, lastSegment, callStart, lastClean>>

\* One answer request is observed between two steps of an ingestion: a
\* request changes nothing a later request reads.
ProcessChatQuery ==
    \E q \in Queries, user_type \in StudentType, weak_subjects \in WeakSubjectLists,
       searchFault \in SearchFaults, llm \in LLMOutcomes :
        /\ ~lastChat.called
        /\ lastChat' =
              [called |-> TRUE,
               request |-> ChatRequest(q, user_type, weak_subjects),
               searchFault |-> searchFault,
               llm |-> llm,
               done |-> process_chat_query(collection, handleOk, client,
                            ChatRequest(q, user_type, weak_subjects), searchFault, llm),
               status |-> get_system_status(collection, handleOk),
               ingesting |-> Ingesting,
               corpus_size |-> Len(collection)]
        /\ UNCHANGED <<collection, handleOk, client, runs, pc, chunks,
                       stageFailed, initResult, lastSearch, prevSearch, pending, lastSegment, callStart, lastClean>>

\* Ingestion: concurrent callers of initialize_knowledge_base
Next ==
    \/ \E p \in Callers : InitializeSegment(p, MaxRuns)
    \/ \E p \in Callers : InitializeClear(p)
    \/ \E p \in Callers : InitializeStore(p)

Spec == Init /\ [][Next]_vars

\* Answer requests arriving before, during and after an ingestion
NextChat ==
    \/ InitializeSegment(1, MaxChatRuns)
    \/ InitializeClear(1)
    \/ InitializeStore(1)
    \/ ProcessChatQuery

SpecChat == Init /\ [][NextChat]_vars

\* One caller's initialize_knowledge_base calls, each returning before the
\* next begins
NextIngest ==
    \/ InitializeSegment(1, MaxIngestRuns)
    \/ InitializeClear(1)
    \/ InitializeStore(1)

SpecIngest == Init /\ [][NextIngest]_vars

(***************************************************************************)
(* Direct retrieval: a caller invokes search_chunks(query, k, threshold)   *)
(***************************************************************************)
SearchRecord(q, k, t, fault, out) ==
    [called |-> TRUE, query |-> q, k |-> k, t |-> t, fault |-> fault,
     returned |-> out.returned, raised |-> out.raised, caught |-> out.caught,
     embed_calls |-> out.embed_calls,
     k_used |-> out.k_used, t_used |-> out.t_used, n_results |-> out.n_results,
     neighbours |-> out.neighbours, filtered |-> out.filtered]

SearchChunks ==
    \E q \in Queries, k \in KArgs, t \in ThresholdArgs, fault \in SearchFaults :
        /\ lastSearch' = SearchRecord(q, k, t, fault,
                            search_chunks(collection, handleOk, q, k, t, fault))
        /\ prevSearch' = NoSearch
        /\ UNCHANGED <<collection, handleOk, client, runs, pc, chunks,
                       stageFailed, initResult, lastChat, pending, lastSegment, callStart, lastClean>>

\* The caller repeats its last search (same query, same k, same corpus
\* state) with another threshold; no external call raises in either search.
SearchAgain ==
    \E t \in ThresholdArgs :
        /\ lastSearch.called /\ ~lastSearch.caught
        /\ ~prevSearch.called
        /\ lastSearch' = SearchRecord(lastSearch.query, lastSearch.k, t, "none",
                            search_chunks(collection, handleOk, lastSearch.query,
                                          lastSearch.k, t, "none"))
        /\ prevSearch' = lastSearch
        /\ UNCHANGED <<collection, handleOk, client, runs, pc, chunks,
                       stageFailed, initResult, lastChat, pending, lastSegment, callStart, lastClean>>

\* Retrieval over a fixed corpus state
SearchCollections ==
    PersistedCollections \cup
    { StoredAs(WithIds(1, <<"cell", "gravity", "atom">>)),
      StoredAs(WithIds(1, <<"atom", "sound", "gravity", "motion", "cell", "gravity">>)) }

InitSearch ==
    /\ collection \in SearchCollections
    /\ handleOk = TRUE
    /\ client = TRUE
    /\ runs = 0
    /\ pc = [p \in Callers |-> "idle"]
    /\ chunks = [p \in Callers |-> << >>]
    /\ stageFailed = [p \in Callers |-> {}]
    /\ initResult = [p \in Callers |-> NoResult]
    /\ lastChat = NoChat
    /\ lastSearch = NoSearch
    /\ prevSearch = NoSearch
    /\ pending = NoPending
    /\ lastSegment = NoSegment
    /\ callStart = [p \in Callers |-> NoCall]
    /\ lastClean = NoClean

NextSearch == SearchChunks \/ SearchAgain

SpecSearch == InitSearch /\ [][NextSearch]_vars

(***************************************************************************)
(* Retrieval claims (checked under SpecSearch)                             *)
(***************************************************************************)
UnitsOf(retrieved) == {retrieved[i].metadata.unit : i \in 1..Len(retrieved)}

\* The threshold a call asked for: its argument, or the configured default
\* when the argument was omitted
RequestedThreshold(search) ==
    IF Given(search.t) THEN ValueOf(search.t) ELSE SimilarityThreshold

\* C2: every unit returned by search_chunks(q, k, t) carries a
\* similarity_score that is >= t.
C2_ReportedScoreClearsThreshold ==
    lastSearch.called =>
        \A i \in 1..Len(lastSearch.returned) :
            RatGeq(ScoreAsRat(lastSearch.returned[i].similarity_score),
                   RequestedThreshold(lastSearch))

\* C8: same query, same k, same corpus state, thresholds t1 <= t2 both
\* supplied: every unit returned for t2 is also returned for t1.
C8_RaisingThresholdNeverAddsUnit ==
    (prevSearch.called /\ Given(prevSearch.t) /\ Given(lastSearch.t)) =>
        /\ RatLeq(ValueOf(prevSearch.t), ValueOf(lastSearch.t))
              => UnitsOf(lastSearch.returned) \subseteq UnitsOf(prevSearch.returned)
        /\ RatLeq(ValueOf(lastSearch.t), ValueOf(prevSearch.t))
              => UnitsOf(prevSearch.returned) \subseteq UnitsOf(lastSearch.returned)

\* C9: when the caller supplies k >= 1 and t in [0,1], the k used for the
\* index query and the t used for the filter are the supplied values.
C9_SuppliedArgumentsAreUsed ==
    (lastSearch.called /\ ~lastSearch.caught
        /\ Given(lastSearch.k) /\ ValueOf(lastSearch.k) >= 1
        /\ Given(lastSearch.t)) =>
        /\ lastSearch.k_used = ValueOf(lastSearch.k)
        /\ RatGeq(lastSearch.t_used, ValueOf(lastSearch.t))
        /\ RatLeq(lastSearch.t_used, ValueOf(lastSearch.t))

\* a is b with some elements removed, the others in the same relative order
RECURSIVE IsSubsequence(_, _)
IsSubsequence(a, b) ==
    IF a = << >> THEN TRUE
    ELSE IF b = << >> THEN FALSE
    ELSE IF Head(a) = Head(b) THEN IsSubsequence(Tail(a), Tail(b))
    ELSE IsSubsequence(a, Tail(b))

\* C10: the sequence search_chunks returns is a subsequence of the index's
\* nearest-neighbour result, in the same relative order, and (the index
\* answering by increasing distance) its similarities are non-increasing.
C10_ReturnedIsOrderedSubsequence ==
    lastSearch.called =>
        /\ IsSubsequence(lastSearch.returned,
                         [i \in 1..Len(lastSearch.neighbours) |->
                             RetrievedChunk(lastSearch.neighbours[i])])
        /\ \A i \in 1..Len(lastSearch.returned) - 1 :
              lastSearch.returned[i].similarity_score
                  >= lastSearch.returned[i + 1].similarity_score

\* C10 witness: the filter dropped a neighbour and kept at least two, of
\* different similarity
C10_Witness ==
    /\ lastSearch.called
    /\ Len(lastSearch.returned) >= 2
    /\ Len(lastSearch.returned) < Len(lastSearch.neighbours)
    /\ lastSearch.returned[1].similarity_score
          > lastSearch.returned[Len(lastSearch.returned)].similarity_score

(***************************************************************************)
(* Answer-request claims (checked under SpecChat)                          *)
(***************************************************************************)
NoInformationAnswer == <<"No relevant information found in the textbook.">>
ServiceUnavailableAnswer ==
    <<"LLM service is not available. Please configure OpenAI API key.">>
ApologyAnswer ==
    <<"I apologize, but I encountered an error while generating the response: ",
      "LLM response generation failed: ", LLMError>>
GeneratedAnswer == <<"generated answer">>

\* C1: when retrieval returns zero units the answer is the fixed
\* no-relevant-information message and the language model is not invoked;
\* in particular for every query against an empty index.
C1_EmptyRetrievalSkipsLLM ==
    lastChat.called =>
        /\ lastChat.done.retrieved = << >> =>
              /\ lastChat.done.response.answer = NoInformationAnswer
              /\ lastChat.done.response.retrieved_chunks = << >>
              /\ ~lastChat.done.llm_entered
              /\ lastChat.done.llm_calls = 0
        /\ lastChat.corpus_size = 0 => lastChat.done.retrieved = << >>

\* C1 witness: a query against an empty index, no external call failing and
\* the language model available
C1_Witness ==
    /\ lastChat.called
    /\ lastChat.corpus_size = 0
    /\ lastChat.searchFault = "none"
    /\ lastChat.llm = "answer"
    /\ client
    /\ lastChat.done.response.answer = NoInformationAnswer

\* C3: process_chat_query never raises; whatever external calls fail, it
\* returns a response that echoes the query and the user type and whose
\* answer is the generated text or one of the fixed degraded answers.
C3_AlwaysWellFormedResponse ==
    lastChat.called =>
        /\ ~lastChat.done.response.raised
        /\ lastChat.done.response.query = lastChat.request.query
        /\ lastChat.done.response.user_type = lastChat.request.user_type
        /\ lastChat.done.response.answer \in
              {GeneratedAnswer, NoInformationAnswer, ServiceUnavailableAnswer, ApologyAnswer}
        /\ Len(lastChat.done.response.retrieved_chunks) = Len(lastChat.done.retrieved)

\* C3 witness: retrieval found units, the language-model call raised, and
\* the request was answered with the apology
C3_Witness ==
    /\ lastChat.called
    /\ client
    /\ lastChat.searchFault = "none"
    /\ lastChat.llm = "raise"
    /\ lastChat.done.retrieved # << >>
    /\ lastChat.done.llm_calls = 1
    /\ lastChat.done.response.answer = ApologyAnswer
    /\ lastChat.done.response.query = lastChat.request.query

\* C7 (as claimed): a request reaches the language model only in `ready`,
\* that is after an initialize_knowledge_base of this orchestrator has
\* returned and while none is in progress; never while the orchestrator is
\* uninitialized or ingesting.
C7_LLMOnlyWhenReady ==
    (lastChat.called /\ lastChat.done.llm_calls > 0) =>
        /\ runs > 0
        /\ ~lastChat.ingesting

\* C7 (amended): a request reaches the language model exactly when
\* retrieval over the index as it stands returns at least one unit and a
\* client is configured; a request arriving while get_system_status
\* reports not_initialized (the index is empty) never reaches it.
C7_LLMOnlyOverPopulatedIndex ==
    lastChat.called =>
        /\ lastChat.done.llm_calls > 0 <=>
              (lastChat.done.retrieved # << >> /\ client)
        /\ lastChat.done.llm_entered <=> lastChat.done.retrieved # << >>
        /\ lastChat.status = "not_initialized" =>
              /\ ~lastChat.done.llm_entered
              /\ lastChat.done.llm_calls = 0
        /\ lastChat.done.llm_calls > 0 => lastChat.corpus_size > 0

\* C7 witness: a request arrives before any initialize_knowledge_base of
\* this orchestrator, over units an earlier process stored, and is answered
\* by the language model
C7_Witness ==
    /\ lastChat.called
    /\ runs = 0
    /\ ~lastChat.ingesting
    /\ lastChat.status = "healthy"
    /\ lastChat.searchFault = "none"
    /\ client
    /\ lastChat.done.retrieved # << >>
    /\ lastChat.done.llm_calls = 1

(***************************************************************************)
(* Ingestion claims (checked under Spec)                                   *)
(***************************************************************************)
\* C4: whenever initialize_knowledge_base reports success, the index holds
\* exactly the units of that run: its count equals total_chunks and no
\* entry stored before the run survives.
C4_SuccessMeansIndexIsThisRun ==
    \A p \in Callers :
        (initResult[p].returned /\ initResult[p].success) =>
            /\ initResult[p].index_ids = initResult[p].chunk_ids
            /\ initResult[p].index_count = ValueOf(initResult[p].total_chunks)

\* C5: initialize_knowledge_base reports failure whenever a stage it ran
\* failed (segmentation, clearing, computing vectors, upserting).
C5_StageFailureMeansFailure ==
    \A p \in Callers :
        (initResult[p].returned /\ initResult[p].failed_stages # {}) =>
            ~initResult[p].success

\* C6: a failure returned by initialize_knowledge_base carries the original
\* cause reported by the stage that failed.
C6_FailureCarriesCause ==
    \A p \in Callers :
        (initResult[p].returned /\ ~initResult[p].success) =>
            \A f \in initResult[p].failed_stages :
                f.cause \in Elements(initResult[p].message)

(***************************************************************************)
(* Failure-handling claims of an answer request (checked under SpecChat)   *)
(***************************************************************************)
\* The language-model call of the last request was made and raised
LLMCallFailed ==
    /\ lastChat.called
    /\ client
    /\ lastChat.done.retrieved # << >>
    /\ lastChat.llm = "raise"

\* C11: when the language-model call fails in a request whose retrieval was
\* non-empty, the failure is caught, the result carries success false, the
\* answer is the apologetic string containing the error cause, and the
\* request completes with a response echoing the query.
C11_LLMFailureGivesApology ==
    LLMCallFailed =>
        /\ ~lastChat.done.response.raised
        /\ lastChat.done.llm_calls = 1
        /\ ~lastChat.done.llm_success
        /\ lastChat.done.response.answer = ApologyAnswer
        /\ LLMError \in Elements(lastChat.done.response.answer)
        /\ lastChat.done.response.query = lastChat.request.query
        /\ Len(lastChat.done.response.retrieved_chunks) = Len(lastChat.done.retrieved)

\* C11 witness: the language-model call raised after retrieval returned two
\* units, and the apology was returned
C11_Witness ==
    /\ LLMCallFailed
    /\ Len(lastChat.done.retrieved) = 2
    /\ lastChat.done.response.answer = ApologyAnswer
    /\ ~lastChat.done.llm_success

\* What every answer request of a service without credentials shows
DegradedWithoutCredentials ==
    lastChat.called =>
        /\ lastChat.done.llm_calls = 0
        /\ lastChat.done.retrieved # << >> =>
              /\ ~lastChat.done.response.raised
              /\ lastChat.done.response.answer = ServiceUnavailableAnswer
              /\ ~lastChat.done.llm_success

\* C12: a language-model service constructed without credentials stays
\* without a client, and in every later answer request the language model
\* is never invoked and a non-empty retrieval is answered with the
\* service-unavailable answer, success false.
C12_NoCredentialsIsPermanent ==
    [][~client => (~client' /\ DegradedWithoutCredentials')]_vars

\* C12 witness: without credentials, a request made after an
\* initialize_knowledge_base has stored units retrieves some of them and
\* gets the service-unavailable answer
C12_Witness ==
    /\ ~client
    /\ runs > 0
    /\ lastChat.called
    /\ lastChat.status = "healthy"
    /\ lastChat.done.retrieved # << >>
    /\ lastChat.done.llm_calls = 0
    /\ lastChat.done.response.answer = ServiceUnavailableAnswer

\* The index query of the last request was reached and raised
IndexQueryFailed ==
    /\ lastChat.called
    /\ lastChat.searchFault = "query"
    /\ handleOk

\* C13: when the index query fails at query time, search_chunks returns an
\* empty sequence instead of raising, and the request that issued it
\* returns the degraded no-information response without invoking the
\* language model.
C13_QueryFailureIsEmptyRetrieval ==
    IndexQueryFailed =>
        /\ lastChat.done.search_caught
        /\ lastChat.done.retrieved = << >>
        /\ ~lastChat.done.response.raised
        /\ lastChat.done.response.answer = NoInformationAnswer
        /\ lastChat.done.response.query = lastChat.request.query
        /\ ~lastChat.done.llm_entered
        /\ lastChat.done.llm_calls = 0

\* C13 witness: the query failed over a populated index, with a client
\* configured and a language model that would have answered
C13_Witness ==
    /\ IndexQueryFailed
    /\ client
    /\ lastChat.llm = "answer"
    /\ lastChat.corpus_size > 0
    /\ lastChat.done.search_caught
    /\ lastChat.done.response.answer = NoInformationAnswer

(***************************************************************************)
(* Embedding failures (checked under SpecSearch)                           *)
(***************************************************************************)
\* C14: a failure of the embedding service is propagated: when the query
\* could not be embedded, search_chunks does not return a result sequence
\* (an exception leaves it), so the outcome differs from the empty result
\* of a search in which nothing cleared the threshold.
C14_EmbeddingFailurePropagates ==
    (lastSearch.called /\ lastSearch.fault = "embed") =>
        /\ lastSearch.raised
        /\ ~lastSearch.caught

(***************************************************************************)
(* Personalization claims (checked under SpecChat)                         *)
(***************************************************************************)
\* The learner profile of the last request asks for personalization
ProfileIsPersonal ==
    \/ lastChat.request.user_type # "general"
    \/ lastChat.request.weak_subjects # << >>

\* C15 (as claimed): for every answer request and every outcome of its
\* stages, personalization_applied is true iff the category is not general
\* or the declared weak subjects are non-empty.
C15_FlagIffProfile ==
    lastChat.called =>
        (lastChat.done.response.personalization_applied <=> ProfileIsPersonal)

\* C15 (amended): personalization_applied is true iff the language-model
\* call of the request succeeded and the category is not general or the
\* declared weak subjects are non-empty.
C15_FlagIffProfileAndGenerated ==
    lastChat.called =>
        (lastChat.done.response.personalization_applied <=>
            (lastChat.done.llm_success /\ ProfileIsPersonal))

\* C15 witness: category general with a declared weak subject, answered by
\* the language model, flag true
C15_Witness ==
    /\ lastChat.called
    /\ lastChat.request.user_type = "general"
    /\ lastChat.request.weak_subjects = <<"physics">>
    /\ lastChat.done.llm_success
    /\ lastChat.done.response.personalization_applied

\* The personalization blocks of a composed system prompt: what stands
\* between the base prompt and the weak-subjects clause
PersonalizationBlocks(system_prompt, weak_subjects) ==
    SubSeq(system_prompt, 2,
           Len(system_prompt) - (IF weak_subjects # << >> THEN 2 ELSE 0))

\* C16: the system prompt sent to the language model is the base policy
\* followed by exactly one personalization block selected by the category,
\* and any other category would have selected a different block.
C16_OneBlockPerCategory ==
    (lastChat.called /\ lastChat.done.llm_calls > 0) =>
        LET profile == lastChat.request
            blocks  == PersonalizationBlocks(lastChat.done.system_prompt,
                                             profile.weak_subjects)
        IN  /\ Head(lastChat.done.system_prompt) = "BASE PROMPT"
            /\ Len(blocks) = 1
            /\ \A other \in StudentType \ {profile.user_type} :
                  PersonalizationBlocks(
                      create_system_prompt(other, profile.weak_subjects),
                      profile.weak_subjects) # blocks

(***************************************************************************)
(* Concurrent ingestion (checked under Spec)                               *)
(***************************************************************************)
\* The callers that have cleared (or skipped clearing) the index and have
\* not finished their upsert
Writers == {p \in Callers : pc[p] = "store"}

\* Every caller has made an initialize_knowledge_base call, all calls have
\* returned, and all of them reported success
AllReportedSuccess ==
    \A p \in Callers :
        /\ pc[p] = "idle"
        /\ initResult[p].returned
        /\ initResult[p].success

\* C17: ingestion is single-writer: at most one initialize call is between
\* its clear and the end of its upsert at any time, and when all calls
\* report success the index holds the units of exactly one run.
C17_SingleWriterIngestion ==
    /\ Cardinality(Writers) <= 1
    /\ AllReportedSuccess =>
          \E p \in Callers :
              /\ initResult[p].returned
              /\ IdsOf(collection) = initResult[p].chunk_ids
              /\ Len(collection) = ValueOf(initResult[p].total_chunks)

(***************************************************************************)
(* An answer request followed call by call.  process_chat_query is          *)
(* synchronous: it waits for generate_embeddings (embedding_model.encode)   *)
(* and then, when retrieval returned units and a client exists, for        *)
(* client.chat.completions.create.  Neither call is given a timeout and     *)
(* process_chat_query takes none, so the only steps are the clock           *)
(* advancing while a call is outstanding and the call coming back.         *)
(***************************************************************************)
\* The time the caller is prepared to wait for its request
CallerDeadlines == 1..(MaxWait - 1)

\* process_chat_query is entered and calls search_chunks, which calls
\* generate_embeddings
ChatBegin ==
    \E q \in Queries, searchFault \in SearchFaults, llm \in LLMOutcomes,
       deadline \in CallerDeadlines :
        /\ pending.phase = "none"
        /\ pending' = [phase |-> "embed",
                       request |-> ChatRequest(q, "general", << >>),
                       searchFault |-> searchFault, llm |-> llm,
                       deadline |-> deadline, elapsed |-> 0]
        /\ UNCHANGED <<collection, handleOk, client, runs, pc, chunks,
                       stageFailed, initResult, lastChat, lastSearch, prevSearch, lastSegment, callStart, lastClean>>

\* Time passes while the call the request waits for is outstanding
Tick ==
    /\ pending.phase \in {"embed", "llm"}
    /\ pending.elapsed < MaxWait
    /\ pending' = [pending EXCEPT !.elapsed = @ + 1]
    /\ UNCHANGED <<collection, handleOk, client, runs, pc, chunks,
                   stageFailed, initResult, lastChat, lastSearch, prevSearch, lastSegment, callStart, lastClean>>

\* The request as it returns: its ChatResponse and what it did
Returned(done) ==
    [phase |-> "returned", request |-> pending.request,
     searchFault |-> pending.searchFault, llm |-> pending.llm,
     deadline |-> pending.deadline, elapsed |-> pending.elapsed,
     done |-> done]

\* generate_embeddings comes back (with the vector or raising); the rest of
\* search_chunks runs, and the request either returns or goes on to the
\* language-model call
EmbedReturns ==
    /\ pending.phase = "embed"
    /\ LET done == process_chat_query(collection, handleOk, client, pending.request,
                                      pending.searchFault, pending.llm)
       IN  pending' = IF done.llm_calls > 0
                      THEN [pending EXCEPT !.phase = "llm"]
                      ELSE Returned(done)
    /\ UNCHANGED <<collection, handleOk, client, runs, pc, chunks,
                   stageFailed, initResult, lastChat, lastSearch, prevSearch, lastSegment, callStart, lastClean>>

\* client.chat.completions.create comes back (with the completion or
\* raising) and process_chat_query returns its ChatResponse
LLMReturns ==
    /\ pending.phase = "llm"
    /\ pending' = Returned(process_chat_query(collection, handleOk, client,
                                pending.request, pending.searchFault, pending.llm))
    /\ UNCHANGED <<collection, handleOk, client, runs, pc, chunks,
                   stageFailed, initResult, lastChat, lastSearch, prevSearch, lastSegment, callStart, lastClean>>

NextCalls == ChatBegin \/ Tick \/ EmbedReturns \/ LLMReturns

SpecCalls == Init /\ [][NextCalls]_vars

(***************************************************************************)
(* Timing claims (checked under SpecCalls)                                 *)
(***************************************************************************)
\* C18: every embedding call and every language-model call of the pipeline
\* is bounded by the caller's timeout: once that time has elapsed the
\* request is no longer waiting for the call (it has reported a failure).
C18_CallsBoundedByCallerTimeout ==
    pending.phase \in {"embed", "llm"} => pending.elapsed <= pending.deadline

(***************************************************************************)
(* Token accounting (checked under SpecChat)                               *)
(***************************************************************************)
\* C19: an answer produced by a successful language-model call is returned
\* to the caller of process_chat_query together with the token-usage count
\* the language model reported for that call.  ChatResponse has no token
\* field of its own, so the count could only travel in its metadata.
C19_TokenUsageReturned ==
    (lastChat.called /\ lastChat.done.llm_success) =>
        /\ lastChat.done.response.answer = GeneratedAnswer
        /\ <<"tokens_used", lastChat.done.tokens_used>>
              \in lastChat.done.response.metadata

(***************************************************************************)
(* Direct segmentation: a caller invokes process_pdf on a document set     *)
(***************************************************************************)
\* The documents a directory may hold.  An unreadable document raises in
\* extract_text_with_structure, possibly after some of its pages were read.
SourceDocuments ==
    { Document(FALSE, << >>),
      Document(FALSE, << <<"sound">> >>),
      Document(TRUE, << >>),
      Document(TRUE, << <<"fig">>, <<"page no">> >>),
      Document(TRUE, << <<"gravity", "fig", "motion">> >>),
      Document(TRUE, << <<"atom">>, <<"page no", "cell">> >>) }

\* pdf_files: up to MaxDocs documents, in sorted order
DocumentSets == UNION {[1..n -> SourceDocuments] : n \in 0..MaxDocs}

ProcessPdf ==
    \E pdf_files \in DocumentSets :
        /\ lastSegment' = [called |-> TRUE, pdf_files |-> pdf_files,
                           result |-> process_pdf(pdf_files, 1)]
        /\ UNCHANGED <<collection, handleOk, client, runs, pc, chunks, stageFailed,
                       initResult, lastChat, lastSearch, prevSearch, pending, callStart, lastClean>>

\* Segmentation reads the documents only; the index and the client play no
\* part in it
InitSegment ==
    /\ collection = << >>
    /\ handleOk = TRUE
    /\ client = TRUE
    /\ runs = 0
    /\ pc = [p \in Callers |-> "idle"]
    /\ chunks = [p \in Callers |-> << >>]
    /\ stageFailed = [p \in Callers |-> {}]
    /\ initResult = [p \in Callers |-> NoResult]
    /\ lastChat = NoChat
    /\ lastSearch = NoSearch
    /\ prevSearch = NoSearch
    /\ pending = NoPending
    /\ lastSegment = NoSegment
    /\ callStart = [p \in Callers |-> NoCall]
    /\ lastClean = NoClean

NextSegment == ProcessPdf

SpecSegment == InitSegment /\ [][NextSegment]_vars

(***************************************************************************)
(* Segmentation claims (checked under SpecSegment)                         *)
(***************************************************************************)
\* The units one document yields on its own: none when it cannot be read
UnitsOfDocument(doc) ==
    IF doc.readable THEN create_chunks(doc.sections) ELSE << >>

\* The units of the documents of a set, document by document
RECURSIVE UnitsInDocumentOrder(_)
UnitsInDocumentOrder(pdf_files) ==
    IF pdf_files = << >> THEN << >>
    ELSE UnitsOfDocument(Head(pdf_files)) \o UnitsInDocumentOrder(Tail(pdf_files))

TextsOf(chunkList) == [i \in 1..Len(chunkList) |-> chunkList[i].text]

\* C20: process_pdf skips every document that cannot be read: if at least
\* one document yields units it succeeds and returns the units of the
\* readable documents in document order, and it reports failure only when
\* no document yields any unit.
C20_UnreadableDocumentsAreSkipped ==
    lastSegment.called =>
        LET pdf_files == lastSegment.pdf_files
            result    == lastSegment.result
        IN  /\ UnitsInDocumentOrder(pdf_files) # << >> =>
                  /\ result.success
                  /\ TextsOf(result.chunks) = UnitsInDocumentOrder(pdf_files)
            /\ ~result.success => UnitsInDocumentOrder(pdf_files) = << >>

\* C20 witness: an unreadable document stands between two readable ones
\* and the units of both readable documents are returned
C20_Witness ==
    /\ lastSegment.called
    /\ Len(lastSegment.pdf_files) = 3
    /\ lastSegment.pdf_files[1].readable
    /\ ~lastSegment.pdf_files[2].readable
    /\ lastSegment.pdf_files[3].readable
    /\ lastSegment.result.success
    /\ TextsOf(lastSegment.result.chunks) = <<"gravity", "motion", "atom", "cell">>

(***************************************************************************)
(* Unit invariants of ingestion (checked under Spec)                       *)
(***************************************************************************)
\* C21: every unit segmentation returns has a trimmed text of at least 50
\* characters, so a window whose trimmed length is below 50 is absent from
\* the units of a run and from the index.
C21_UnitsAreAtLeastMinLength ==
    /\ \A p \in Callers : \A i \in 1..Len(chunks[p]) :
          StrippedLen[chunks[p][i].text] >= MinChunkLen
    /\ \A i \in 1..Len(collection) :
          StrippedLen[collection[i].document] >= MinChunkLen

\* C21 witness: a run over a document with windows of trimmed length 74, 49
\* and 50 stored the first and the last and reported two units
C21_Witness ==
    \E p \in Callers :
        /\ initResult[p].returned
        /\ initResult[p].success
        /\ initResult[p].total_chunks = Arg(2)
        /\ \E i \in 1..Len(collection) :
              /\ collection[i].document = "motion"
              /\ collection[i].id[1] = initResult[p].run
        /\ StrippedLen["motion"] = MinChunkLen

\* No two entries of an index have the same id
UniqueIds(coll) ==
    \A i, j \in 1..Len(coll) : coll[i].id = coll[j].id => i = j

\* Every entry the index held is still there under the same id, or the
\* index was emptied
IdsKept(before, after) ==
    \/ after = << >>
    \/ /\ Len(before) <= Len(after)
       /\ \A i \in 1..Len(before) : after[i] = before[i]

\* C22: after any sequence of initialize operations every stored unit has
\* an id distinct from every other stored unit's, and the id a unit was
\* stored under never changes while the unit stays in the index.
C22_StoredIdsUniqueAndStable ==
    [][/\ UniqueIds(collection)
       /\ UniqueIds(collection')
       /\ IdsKept(collection, collection')]_vars

\* C22 witness: after a clear that failed, the index holds the units of two
\* runs, among them the same text twice under different ids
C22_Witness ==
    /\ \A p \in Callers : pc[p] = "idle"
    /\ \E i, j \in 1..Len(collection) :
          /\ collection[i].document = collection[j].document
          /\ collection[i].id[1] # collection[j].id[1]
    /\ UniqueIds(collection)

(***************************************************************************)
(* C23  No rollback                                                        *)
(***************************************************************************)
\* The store step of caller p whose embedding or add call raised, after the
\* clear step of the same call deleted and recreated the collection
StoreFailsAfterClear(p) ==
    /\ pc[p] = "store"
    /\ pc'[p] = "idle"
    /\ callStart[p].clear = "cleared"
    /\ \E f \in initResult'[p].failed_stages : f.stage \in {"embed", "upsert"}

\* What the adapter can leave behind when store_chunks fails over `coll`:
\* coll itself, or coll followed by the first entries of the batch
AdapterLeaves(coll, chunkList, after) ==
    \E n \in 0..Len(chunkList) : after = coll \o SubSeq(StoredAs(chunkList), 1, n)

\* C23: when the clear of an initialize succeeded and the embedding or the add
\* that follows fails, initialize returns failure, the index is what the
\* failed store_chunks left of it, and no entry the index held when the call
\* began is in it again.
C23_NoRollbackAfterClear ==
    [][\A p \in Callers :
          StoreFailsAfterClear(p) =>
              /\ initResult'[p].returned
              /\ ~initResult'[p].success
              /\ initResult'[p].message = <<"Failed to store embeddings">>
              /\ AdapterLeaves(collection, chunks[p], collection')
              /\ \A i \in 1..Len(callStart[p].index) :
                     \A j \in 1..Len(collection') :
                        collection'[j] # callStart[p].index[i]]_vars

\* An initialize whose clear succeeded (it runs over a populated index only)
\* and whose add raised after one entry: failure is returned and the index
\* holds that one entry, none of those it held before
C23_Witness ==
    \E p \in Callers :
        /\ pc[p] = "idle"
        /\ initResult[p].returned
        /\ ~initResult[p].success
        /\ callStart[p].clear = "cleared"
        /\ Failure("upsert", AddError) \in initResult[p].failed_stages
        /\ Len(collection) = 1
        /\ collection[1].id[1] = initResult[p].run

(***************************************************************************)
(* C24  Distance-to-similarity mapping                                     *)
(***************************************************************************)
\* C24: the similarity attached to every returned unit equals
\* 1 / (1 + raw_distance) exactly, for the raw distance the index reported
\* for that unit.
C24_ReportedSimilarityIsExact ==
    lastSearch.called =>
        \A i \in 1..Len(lastSearch.returned) :
            LET reported == ScoreAsRat(lastSearch.returned[i].similarity_score)
                exact    == Similarity(Distance[lastSearch.query]
                                               [lastSearch.returned[i].content])
            IN  /\ RatGeq(reported, exact)
                /\ RatLeq(reported, exact)

(***************************************************************************)
(* C25  The neighbour count is clamped to the corpus size                  *)
(***************************************************************************)
\* The k of a retrieve call: the supplied one, the configured one when the
\* caller omitted it
RequestedK(search) ==
    IF Given(search.k) THEN ValueOf(search.k) ELSE RetrievalK

\* C25: every search_chunks call that reaches the index asks it for
\* min(k, corpus size) neighbours, and no call returns more than
\* min(k, corpus size) units.
C25_NeighboursClampedToCorpus ==
    lastSearch.called =>
        LET limit == Min(RequestedK(lastSearch), Len(collection))
        IN  /\ Given(lastSearch.n_results) => ValueOf(lastSearch.n_results) = limit
            /\ Len(lastSearch.returned) <= limit

(***************************************************************************)
(* C26  The retrieval record is advisory                                   *)
(***************************************************************************)
\* C26: once the filter loop of search_chunks has run, the call returns the
\* units that cleared the threshold, whether emitting the retrieval record
\* (log_retrieval and the count() made for it) succeeds or raises.
C26_RecordNeverChangesResult ==
    (lastSearch.called /\ lastSearch.fault \in {"none", "stats"}
        /\ Given(lastSearch.n_results)) =>
        lastSearch.returned = lastSearch.filtered

(***************************************************************************)
(* C27  No retries                                                         *)
(***************************************************************************)
\* One answer request called the embedding model at most once and the
\* language model at most once
ChatCallsOnce ==
    lastChat.called =>
        /\ lastChat.done.embed_calls <= 1
        /\ lastChat.done.llm_calls <= 1

\* The positions an initialize call moves through: each stage is entered
\* from the stage before it and never again
StageOrder ==
    { <<"idle", "clear">>, <<"clear", "store">>, <<"store", "idle">> }

\* A step of caller p's initialize: it never returns to a stage, the chunks
\* it works on come from the one segmentation of this call, and what it
\* returns names at most one failed attempt per stage
StagesOnce(p) ==
    /\ pc'[p] # pc[p] => <<pc[p], pc'[p]>> \in StageOrder
    /\ (pc[p] = "idle" /\ (pc'[p] = "clear" \/ initResult'[p] # initResult[p]))
          => runs' = runs + 1
    /\ pc[p] # "idle" => runs' = runs /\ (pc'[p] # "idle" => chunks'[p] = chunks[p])
    /\ (pc[p] = "store" /\ pc'[p] = "idle") =>
          /\ initResult'[p].returned
          /\ \A id \in initResult'[p].chunk_ids : id[1] = initResult'[p].run
          /\ \A stage \in {"segment", "clear", "embed", "upsert"} :
                Cardinality({f \in initResult'[p].failed_stages : f.stage = stage}) <= 1

\* C27: no retries.  Within one answer request the embedding model and the
\* language model are each called at most once; within one initialize call
\* segmentation, clear and store are each attempted at most once, whatever
\* fails.
C27_NoRetries ==
    [][ChatCallsOnce' /\ \A p \in Callers : StagesOnce(p)]_vars

\* An initialize whose clear failed and whose add then raised returned
\* failure naming both, and the request that followed called the embedding
\* model once and the language model once, which raised
C27_Witness ==
    /\ initResult[1].returned
    /\ ~initResult[1].success
    /\ Failure("clear", DeleteError) \in initResult[1].failed_stages
    /\ Failure("upsert", AddError) \in initResult[1].failed_stages
    /\ lastChat.called
    /\ lastChat.llm = "raise"
    /\ lastChat.done.embed_calls = 1
    /\ lastChat.done.llm_calls = 1
    /\ ~lastChat.done.llm_success

(***************************************************************************)
(* Text cleanup: PDFProcessor._clean_text on the text of one page          *)
(*                                                                         *)
(* A page text is a sequence of lines and a line a sequence of words; an   *)
(* empty line is << >>.  The cleaned text has no line breaks left, so it   *)
(* is one sequence of words.                                               *)
(***************************************************************************)
MaxLines == 3

Numbers == {"12", "3"}
IsNumber(word) == word \in Numbers

\* Lines a textbook page is made of
PageLines ==
    { << >>,
      <<"12">>,
      <<"Page", "3">>,
      <<"Page", "3", "shows", "orbits">>,
      <<"Fig.", "3", "forces">>,
      <<"Table", "12", "units">>,
      <<"gravity", "pulls">>,
      <<"12", "apples">> }

PageTexts == UNION {[1..n -> PageLines] : n \in 1..MaxLines}

\* The words of the lines, in order
RECURSIVE WordsOf(_)
WordsOf(lines) ==
    IF lines = << >> THEN << >> ELSE Head(lines) \o WordsOf(Tail(lines))

\* re.sub(r'\s+', ' ', text): every run of whitespace, line breaks included,
\* becomes one space.  `lead` says that the text starts with that space.
CollapseWhitespace(lines) ==
    [lead |-> lines # << >> /\ Head(lines) = << >>, words |-> WordsOf(lines)]

\* re.sub(r'^\d+\s*$', '', text, flags=re.MULTILINE) on a text without line
\* breaks: it matches when the whole text is one number
RemovePageNumber(text) ==
    IF ~text.lead /\ Len(text.words) = 1 /\ IsNumber(text.words[1])
    THEN [lead |-> FALSE, words |-> << >>]
    ELSE text

\* re.sub(r'^Page \d+', '', text, flags=re.MULTILINE): it removes "Page N"
\* from the start of the text; what follows then starts with a space
RemovePageHeader(text) ==
    IF ~text.lead /\ Len(text.words) >= 2
          /\ text.words[1] = "Page" /\ IsNumber(text.words[2])
    THEN [lead |-> TRUE, words |-> SubSeq(text.words, 3, Len(text.words))]
    ELSE text

\* re.sub(r'^Fig\.\s*\d+.*$', '', ...) and re.sub(r'^Table\s*\d+.*$', '', ...):
\* when the text starts with the label and a number, `.*$` runs to the end
\* of the text
RemoveCaption(text, label) ==
    IF ~text.lead /\ Len(text.words) >= 2
          /\ text.words[1] = label /\ IsNumber(text.words[2])
    THEN [lead |-> FALSE, words |-> << >>]
    ELSE text

\* _clean_text(text); the final strip() drops the leading space
clean_text(lines) ==
    RemoveCaption(
        RemoveCaption(
            RemovePageHeader(RemovePageNumber(CollapseWhitespace(lines))),
            "Fig."),
        "Table").words

\* A direct call of _clean_text on a page text
CleanText ==
    \E text \in PageTexts :
        /\ lastClean' = [called |-> TRUE, text |-> text, cleaned |-> clean_text(text)]
        /\ UNCHANGED <<collection, handleOk, client, runs, pc, chunks, stageFailed,
                       initResult, lastChat, lastSearch, prevSearch, pending,
                       lastSegment, callStart>>

NextClean == CleanText

SpecClean == InitSegment /\ [][NextClean]_vars

(***************************************************************************)
(* C28  What text cleanup removes                                          *)
(***************************************************************************)
\* A line the cleanup is meant to remove: a standalone page number, a bare
\* "Page N" line, a figure or table caption
IsRemovableLine(line) ==
    \/ Len(line) = 1 /\ IsNumber(line[1])
    \/ Len(line) = 2 /\ line[1] = "Page" /\ IsNumber(line[2])
    \/ Len(line) >= 2 /\ line[1] \in {"Fig.", "Table"} /\ IsNumber(line[2])

\* The lines of `lines` at the positions outside `removed`, in order
RECURSIVE WithoutLines(_, _, _)
WithoutLines(lines, removed, i) ==
    IF i > Len(lines) THEN << >>
    ELSE IF i \in removed THEN WithoutLines(lines, removed, i + 1)
    ELSE <<lines[i]>> \o WithoutLines(lines, removed, i + 1)

\* C28: the cleaned text is the page text with some of its removable lines
\* taken out whole and nothing else: the words of every other line are all
\* there, in order.
C28_OnlyWholeRemovableLinesAreRemoved ==
    lastClean.called =>
        \E removed \in SUBSET {i \in 1..Len(lastClean.text) :
                                  IsRemovableLine(lastClean.text[i])} :
            lastClean.cleaned = WordsOf(WithoutLines(lastClean.text, removed, 1))

(***************************************************************************)
(* C29  A run with nothing to store leaves the index alone                 *)
(***************************************************************************)
\* C29: an initialize whose segmentation gave no unit to store (no document,
\* no text, or only windows below the minimum length) returns failure, and
\* the index it leaves is the index it found: its clear step did not run.
C29_EmptyRunLeavesIndex ==
    [][\A p \in Callers :
          /\ (pc[p] = "idle" /\ pc'[p] = "idle" /\ initResult'[p] # initResult[p]) =>
                /\ ~initResult'[p].success
                /\ collection' = collection
          /\ (pc[p] = "store" /\ pc'[p] = "idle" /\ chunks[p] = << >>) =>
                /\ ~initResult'[p].success
                /\ callStart[p].clear = "skipped"
                /\ collection' = callStart[p].index]_vars

(***************************************************************************)
(* C30  Answer requests leave the index alone                              *)
(***************************************************************************)
\* C30: the step in which an answer request is handled, whatever its search
\* and its language-model call do, leaves the contents of the index and its
\* handle as they were; so the corpus size the request saw is the size the
\* index has while its response stands.
C30_ChatLeavesIndexUnchanged ==
    [][/\ (~lastChat.called /\ lastChat'.called) =>
              /\ collection' = collection
              /\ handleOk' = handleOk
       /\ lastChat'.called => lastChat'.corpus_size = Len(collection')]_vars

\* A request over an index of two units whose search returned units and
\* whose language-model call raised: the two units are still there
C30_Witness ==
    /\ lastChat.called
    /\ lastChat.searchFault = "none"
    /\ lastChat.llm = "raise"
    /\ lastChat.done.llm_calls = 1
    /\ lastChat.done.retrieved # << >>
    /\ lastChat.corpus_size = 2
    /\ Len(collection) = 2
    /\ handleOk

====
